---- MODULE Spec2Model ----
(***************************************************************************)
(* State-machine model of the blog application in src/main.py: the users,  *)
(* blog_posts and comments tables, the login session of every client, and  *)
(* one action per route handler that reads or writes them (/about and      *)
(* /contact render a fixed page).  Every handler runs as one atomic step   *)
(* (one request, one commit).  The response to the last request is kept in *)
(* resp so that properties can speak about how a request was answered.     *)
(***************************************************************************)
EXTENDS Integers, Sequences, FiniteSets, TLC

(* ------------------------------ bounds -------------------------------- *)
NumClients == 2
MaxUsers == 2
MaxPostId == 2
MaxComments == 1
MaxDay == 1

(* --------------------------- program constants ------------------------ *)
\* admin_only: "if current_user.id != 1"
AdminId == 1

(* ------------------------------ input sets ---------------------------- *)
Clients == 1..NumClients
Emails == {"a@x.com", "b@x.com"}
\* Passwords tried at /login, and the ones among them chosen at /register.
Passwords == {"pw1", "pw2"}
RegisterPasswords == {"pw1"}
Names == {"Ann"}
Salts == {"salt1"}
Titles == {"Hello", "World"}
Subtitles == {"Sub"}
Bodies == {"Text"}
ImgUrls == {"http://i/img.png"}
HttpMethods == {"GET", "POST"}
PostIds == 1..MaxPostId

\* The session of a client that is not logged in (flask_login's anonymous user).
Anonymous == 0
\* The text of a form field that holds no data (Python None, SQL NULL).
NULL == "NULL"
\* A post reference that resolves to no row (Python None, SQL NULL).
NoPost == 0

VARIABLES
    users,      \* users table: sequence of rows, the row's id is its index
    posts,      \* blog_posts table: function from the ids in use to rows
    comments,   \* comments table: sequence of rows, the row's id is its index
    session,    \* session[c]: id of the user client c is logged in as, or Anonymous
    today,      \* date.today(), as a day index of Calendar
    resp,       \* the response to the request handled last
    deleted     \* history: post ids deleted since the last creation of a post

vars == <<users, posts, comments, session, today, resp, deleted>>
tables == <<users, posts, comments>>

(* ------------------------------ helpers ------------------------------- *)
SetMax(S) == CHOOSE x \in S : \A y \in S : y <= x

\* date.today(): day 0 is December 31, 2022, day i >= 1 is January i, 2023.
Calendar(i) ==
    IF i = 0 THEN [year |-> 2022, month |-> 12, day |-> 31]
    ELSE [year |-> 2023, month |-> 1, day |-> i]

MonthName(m) == IF m = 12 THEN "December" ELSE IF m = 1 THEN "January" ELSE "Month"

\* date.strftime("%B %d, %Y")
strftime(d) == <<MonthName(d.month), d.day, d.year>>

\* werkzeug generate_password_hash(password, method, salt_length): a salted one-way
\* digest; the digest is modelled as the injective pair of salt and password.
generate_password_hash(password, salt) ==
    [method |-> "pbkdf2:sha256", salt |-> salt, digest |-> <<salt, password>>]

\* werkzeug check_password_hash(pwhash, password)
check_password_hash(pwhash, password) ==
    pwhash.digest = <<pwhash.salt, password>>

\* Faulty variant of the lookup: it compares the name column with the email.
UserByEmail_name_column(email) ==
    IF \E i \in 1..Len(users) : users[i].name = email
    THEN CHOOSE i \in 1..Len(users) : users[i].name = email
    ELSE Anonymous

\* User.query.filter_by(email=email).first(): the id of the row, or Anonymous (None).
UserByEmail(email) ==
    IF \E i \in 1..Len(users) : users[i].email = email
    THEN CHOOSE i \in 1..Len(users) :
            users[i].email = email /\ \A j \in 1..(i - 1) : users[j].email # email
    ELSE Anonymous

\* BlogPost.query.get(post_id): the id of the row, or NoPost (None).
GetPost(post_id) == IF post_id \in DOMAIN posts THEN post_id ELSE NoPost

\* BlogPost.query.all()
AllPosts == DOMAIN posts

\* The integer primary key SQLite gives a new blog_posts row: largest id in use + 1.
NextPostId == IF DOMAIN posts = {} THEN 1 ELSE SetMax(DOMAIN posts) + 1

\* A route accepts GET only unless it is declared with methods=["GET", "POST"].
Methods(route) ==
    IF route \in {"register", "login", "add_new_post"} THEN {"GET", "POST"} ELSE {"GET"}

\* FlaskForm.validate_on_submit(): the request is a submission and the form validates.
validate_on_submit(method, valid) == method = "POST" /\ valid

\* A response: the route that was requested, the HTTP status, the template rendered or
\* the endpoint redirected to, the flashed notice, and the post or the posts shown.
Response(status, to, flash) ==
    [route |-> "", status |-> status, to |-> to, flash |-> flash,
     post |-> NoPost, listing |-> {}]

\* The response r as the answer of the given route.
From(route, r) == [r EXCEPT !.route = route]

render_template(template) == Response(200, template, "")
redirect(endpoint, flash) == Response(302, endpoint, flash)
abort(status) == Response(status, "", "")
\* An exception that no handler catches: the framework answers 500.
ServerError == Response(500, "", "")
MethodNotAllowed == Response(405, "", "")

TypeOK ==
    /\ Len(users) <= MaxUsers
    /\ DOMAIN posts \subseteq PostIds
    /\ Len(comments) <= MaxComments
    /\ session \in [Clients -> 0..MaxUsers]
    /\ today \in 0..MaxDay

Init ==
    /\ users = <<>>
    /\ posts = <<>>
    /\ comments = <<>>
    /\ session = [c \in Clients |-> Anonymous]
    /\ today = 0
    /\ resp = Response(200, "", "")
    /\ deleted = {}

(* --------------------------- authorization gate ----------------------- *)
\* Faulty variant of the gate: it lets every logged-in user through.
admin_only_any_user(c) ==
    IF session[c] = Anonymous THEN "raise" ELSE "call"

\* admin_only: "if current_user.id != 1: return abort(403)".  The anonymous user
\* object has no attribute id, so the comparison itself raises for a session that
\* is not logged in.
admin_only(c) ==
    IF session[c] = Anonymous THEN "raise"
    ELSE IF session[c] # AdminId THEN "abort"
    ELSE "call"

\* The response of a guarded route whose handler was not invoked.
Refused(gate) == IF gate = "raise" THEN ServerError ELSE abort(403)

(* ------------------------------ table rows ---------------------------- *)
\* User(email=..., name=..., password=hash_salted_pw)
NewUser(email, name, hash) == [email |-> email, password |-> hash, name |-> name]

\* Faulty variant of the row: the author is not set.
NewBlogPost_without_author(form, author, day) ==
    [author_id |-> Anonymous, title |-> form.title, subtitle |-> form.subtitle,
     date |-> strftime(Calendar(day)), body |-> form.body, img_url |-> form.img_url]

\* BlogPost(title, subtitle, body, img_url, author=current_user, date=today)
NewBlogPost(form, author, day) ==
    [author_id |-> author, title |-> form.title, subtitle |-> form.subtitle,
     date |-> strftime(Calendar(day)), body |-> form.body, img_url |-> form.img_url]

\* Comment(text=..., comment_author=current_user, parent_post=requested_post)
NewComment(text, author, post) ==
    [post_id |-> post, author_id |-> author, text |-> text]

\* Faulty variant of the deletion: the row stays.
DeleteRow_keeps_row(tbl, id) == tbl

\* db.session.delete(post): the row leaves blog_posts.
DeleteRow(tbl, id) == [i \in DOMAIN tbl \ {id} |-> tbl[i]]

\* The comments relationship has no delete cascade: deleting the parent post sets
\* post_id of its comments to NULL.
Orphan(cs, id) ==
    [i \in DOMAIN cs |->
        IF cs[i].post_id = id THEN [cs[i] EXCEPT !.post_id = NoPost] ELSE cs[i]]

\* blog_posts.title is unique: does a row other than `except` carry the title?
TitleTaken(title, except) ==
    \E i \in DOMAIN posts : i # except /\ posts[i].title = title

\* The data of the comment field of a form that was not submitted.
UnsubmittedData == {NULL, ""}

PostForms ==
    [title : Titles, subtitle : Subtitles, body : Bodies, img_url : ImgUrls,
     author : {AdminId}]

(* ------------------------------ handlers ------------------------------ *)
\* @app.route('/')
get_all_posts(c, method) ==
    /\ resp' = From("get_all_posts",
                    IF method \notin Methods("get_all_posts") THEN MethodNotAllowed
                    ELSE [render_template("index.html") EXCEPT !.listing = AllPosts])
    /\ UNCHANGED <<users, posts, comments, session, today, deleted>>

\* @app.route('/register', methods=["GET", "POST"])
register(c, method, valid, email, name, password, salt) ==
    LET submitted == validate_on_submit(method, valid)
        known == UserByEmail(email) # Anonymous
        hash_salted_pw == generate_password_hash(password, salt)
        new_user == Len(users) + 1
    IN
    /\ (submitted /\ ~known) => Len(users) < MaxUsers
    /\ UNCHANGED <<posts, comments, today, deleted>>
    /\ IF method \notin Methods("register")
       THEN resp' = From("register", MethodNotAllowed) /\ UNCHANGED <<users, session>>
       ELSE IF ~submitted
       THEN resp' = From("register", render_template("register.html"))
            /\ UNCHANGED <<users, session>>
       ELSE IF known
       THEN resp' = From("register", redirect("login",
                        "You've already signed up with that email, log in instead."))
            /\ UNCHANGED <<users, session>>
       ELSE IF \E i \in 1..Len(users) : users[i].email = email
       THEN \* users.email is unique: the commit raises
            resp' = From("register", ServerError) /\ UNCHANGED <<users, session>>
       ELSE /\ users' = Append(users, NewUser(email, name, hash_salted_pw))
            /\ session' = [session EXCEPT ![c] = new_user]
            /\ resp' = From("register", redirect("get_all_posts", ""))

\* @app.route('/login', methods=["GET", "POST"])
login(c, method, valid, email, password) ==
    LET user == UserByEmail(email) IN
    /\ UNCHANGED <<users, posts, comments, today, deleted>>
    /\ IF method \notin Methods("login")
       THEN resp' = From("login", MethodNotAllowed) /\ UNCHANGED session
       ELSE IF ~validate_on_submit(method, valid)
       THEN resp' = From("login", render_template("login.html")) /\ UNCHANGED session
       ELSE IF user = Anonymous
       THEN resp' = From("login", redirect("login",
                        "That email does not exist, please try again."))
            /\ UNCHANGED session
       ELSE IF ~check_password_hash(users[user].password, password)
       THEN \* the branch of the failed check flashes, logs the user in and redirects
            /\ session' = [session EXCEPT ![c] = user]
            /\ resp' = From("login", redirect("get_all_posts",
                            "Password incorrect, please try again."))
       ELSE \* the password verifies: no branch is left, the login page is rendered
            resp' = From("login", render_template("login.html")) /\ UNCHANGED session

\* @app.route('/logout')
logout(c, method) ==
    /\ UNCHANGED <<users, posts, comments, today, deleted>>
    /\ IF method \notin Methods("logout")
       THEN resp' = From("logout", MethodNotAllowed) /\ UNCHANGED session
       ELSE /\ session' = [session EXCEPT ![c] = Anonymous]
            /\ resp' = From("logout", redirect("get_all_posts", ""))

\* @app.route("/post/<int:post_id>")
show_post(c, method, valid, post_id, text) ==
    LET requested_post == GetPost(post_id)
        served == method \in Methods("show_post")
        creates == served /\ ~validate_on_submit(method, valid)
                   /\ session[c] # Anonymous /\ text # NULL
    IN
    /\ creates => Len(comments) < MaxComments
    /\ UNCHANGED <<users, posts, session, today, deleted>>
    /\ IF ~served
       THEN resp' = From("show_post", MethodNotAllowed) /\ UNCHANGED comments
       ELSE IF validate_on_submit(method, valid)
       THEN resp' = From("show_post", redirect("login",
                        "You need to login or register to comment."))
            /\ UNCHANGED comments
       ELSE IF session[c] = Anonymous
       THEN \* the anonymous user object is no mapped User: Comment(...) raises
            resp' = From("show_post", ServerError) /\ UNCHANGED comments
       ELSE IF text = NULL
       THEN \* comments.text is NOT NULL: the commit raises
            resp' = From("show_post", ServerError) /\ UNCHANGED comments
       ELSE /\ comments' = Append(comments, NewComment(text, session[c], requested_post))
            /\ resp' = From("show_post",
                            [render_template("post.html") EXCEPT !.post = requested_post])

\* @app.route("/new-post", methods=["GET", "POST"]) @admin_only
add_new_post(c, method, valid, form) ==
    LET gate == admin_only(c)
        inserts == method \in Methods("add_new_post") /\ gate = "call"
                   /\ validate_on_submit(method, valid) /\ ~TitleTaken(form.title, NoPost)
    IN
    /\ inserts => NextPostId <= MaxPostId
    /\ UNCHANGED <<users, comments, session, today>>
    /\ IF method \notin Methods("add_new_post")
       THEN resp' = From("add_new_post", MethodNotAllowed) /\ UNCHANGED <<posts, deleted>>
       ELSE IF gate # "call"
       THEN resp' = From("add_new_post", Refused(gate)) /\ UNCHANGED <<posts, deleted>>
       ELSE IF ~validate_on_submit(method, valid)
       THEN resp' = From("add_new_post", render_template("make-post.html"))
            /\ UNCHANGED <<posts, deleted>>
       ELSE IF TitleTaken(form.title, NoPost)
       THEN \* blog_posts.title is unique: the commit raises
            resp' = From("add_new_post", ServerError) /\ UNCHANGED <<posts, deleted>>
       ELSE /\ posts' = [i \in DOMAIN posts \cup {NextPostId} |->
                            IF i \in DOMAIN posts THEN posts[i]
                            ELSE NewBlogPost(form, session[c], today)]
            /\ deleted' = {}
            /\ resp' = From("add_new_post", redirect("get_all_posts", ""))

\* @app.route("/edit-post/<int:post_id>") @admin_only
edit_post(c, method, valid, post_id, form) ==
    LET gate == admin_only(c)
        post == GetPost(post_id)
    IN
    /\ UNCHANGED <<users, comments, session, today, deleted>>
    /\ IF method \notin Methods("edit_post")
       THEN resp' = From("edit_post", MethodNotAllowed) /\ UNCHANGED posts
       ELSE IF gate # "call"
       THEN resp' = From("edit_post", Refused(gate)) /\ UNCHANGED posts
       ELSE IF post = NoPost
       THEN \* post is None: reading post.title raises
            resp' = From("edit_post", ServerError) /\ UNCHANGED posts
       ELSE IF ~validate_on_submit(method, valid)
       THEN resp' = From("edit_post", render_template("make-post.html")) /\ UNCHANGED posts
       ELSE IF TitleTaken(form.title, post)
       THEN \* blog_posts.title is unique: the commit raises
            resp' = From("edit_post", ServerError) /\ UNCHANGED posts
       ELSE /\ posts' = [posts EXCEPT ![post] =
                            [@ EXCEPT !.title = form.title, !.subtitle = form.subtitle,
                                      !.img_url = form.img_url, !.author_id = form.author,
                                      !.body = form.body]]
            /\ resp' = From("edit_post", [redirect("show_post", "") EXCEPT !.post = post])

\* @app.route("/delete/<int:post_id>") @admin_only
delete_post(c, method, post_id) ==
    LET gate == admin_only(c)
        post_to_delete == GetPost(post_id)
    IN
    /\ UNCHANGED <<users, session, today>>
    /\ IF method \notin Methods("delete_post")
       THEN resp' = From("delete_post", MethodNotAllowed)
            /\ UNCHANGED <<posts, comments, deleted>>
       ELSE IF gate # "call"
       THEN resp' = From("delete_post", Refused(gate))
            /\ UNCHANGED <<posts, comments, deleted>>
       ELSE IF post_to_delete = NoPost
       THEN \* db.session.delete(None) raises
            resp' = From("delete_post", ServerError)
            /\ UNCHANGED <<posts, comments, deleted>>
       ELSE /\ posts' = DeleteRow(posts, post_to_delete)
            /\ comments' = Orphan(comments, post_to_delete)
            /\ deleted' = deleted \cup {post_to_delete}
            /\ resp' = From("delete_post", redirect("get_all_posts", ""))

\* The calendar day advances between requests.
NextDay ==
    /\ today < MaxDay
    /\ today' = today + 1
    /\ UNCHANGED <<users, posts, comments, session, resp, deleted>>

(* --------------------------- the requests ----------------------------- *)
\* A GET, a POST whose form fails validation, a POST whose form validates.
Submissions == {<<"GET", FALSE>>, <<"POST", FALSE>>, <<"POST", TRUE>>}

\* The fields of a form are read only from a submission that validates.
Fields(s, S) == IF validate_on_submit(s[1], s[2]) THEN S ELSE {""}
Forms(s) ==
    IF validate_on_submit(s[1], s[2]) THEN PostForms
    ELSE {[title |-> "", subtitle |-> "", body |-> "", img_url |-> "", author |-> AdminId]}

\* Text of the comment field as show_post reads it: a route that takes GET only
\* never sees a submission.
Texts(s) == IF s[1] = "GET" THEN UnsubmittedData ELSE {NULL}

Next ==
    \/ \E c \in Clients : get_all_posts(c, "GET")
    \/ \E c \in Clients, s \in Submissions :
         \E e \in Fields(s, Emails), n \in Fields(s, Names),
            p \in Fields(s, RegisterPasswords), salt \in Salts :
              register(c, s[1], s[2], e, n, p, salt)
    \/ \E c \in Clients, s \in Submissions :
         \E e \in Fields(s, Emails), p \in Fields(s, Passwords) :
              login(c, s[1], s[2], e, p)
    \/ \E c \in Clients : logout(c, "GET")
    \/ \E c \in Clients, s \in Submissions, id \in PostIds : \E t \in Texts(s) :
              show_post(c, s[1], s[2], id, t)
    \/ \E c \in Clients, s \in Submissions : \E f \in Forms(s) :
              add_new_post(c, s[1], s[2], f)
    \/ \E c \in Clients, s \in Submissions, id \in PostIds : \E f \in Forms(s) :
              edit_post(c, s[1], s[2], id, f)
    \/ \E c \in Clients, m \in HttpMethods, id \in PostIds : delete_post(c, m, id)
    \/ NextDay

Spec == Init /\ [][Next]_vars

(* ------------------- vocabulary of the properties --------------------- *)
ValidPost == <<"POST", TRUE>>

\* The ids of the users whose email is e.
WithEmail(e) == {i \in 1..Len(users) : users[i].email = e}

\* Client c requests one of the three guarded routes.
NewPostStep(c) ==
    /\ resp'.route = "add_new_post"
    /\ \E s \in Submissions : \E f \in Forms(s) : add_new_post(c, s[1], s[2], f)
EditPostStep(c) ==
    /\ resp'.route = "edit_post"
    /\ \E s \in Submissions, id \in PostIds : \E f \in Forms(s) :
            edit_post(c, s[1], s[2], id, f)
DeletePostStep(c) ==
    resp'.route = "delete_post" /\ \E m \in HttpMethods, id \in PostIds : delete_post(c, m, id)
GuardedStep(c) == NewPostStep(c) \/ EditPostStep(c) \/ DeletePostStep(c)

\* Client c requests a form-backed route without a valid form submission.
NotSubmittedStep(c) ==
    \E s \in Submissions \ {ValidPost} :
        \/ \E salt \in Salts : register(c, s[1], s[2], "", "", "", salt)
        \/ login(c, s[1], s[2], "", "")
        \/ \E id \in PostIds : \E t \in Texts(s) : show_post(c, s[1], s[2], id, t)
        \/ \E f \in Forms(s) : add_new_post(c, s[1], s[2], f)
        \/ \E id \in PostIds : \E f \in Forms(s) : edit_post(c, s[1], s[2], id, f)

(* ------------------------------- C1 ----------------------------------- *)
\* C1: the posts table changes only in a step that is a request to /new-post,
\* /edit-post/<id> or /delete/<id> by a session whose user has identity 1, and such
\* a request by any other session (anonymous included) leaves the users, posts and
\* comments tables unchanged.
C1_PostsChangeOnlyByAdmin ==
    [][ /\ posts' # posts => \E c \in Clients : session[c] = 1 /\ GuardedStep(c)
        /\ \A c \in Clients : session[c] # 1 /\ GuardedStep(c) => UNCHANGED tables
      ]_vars

\* A non-admin user was refused on a guarded route after the admin created and
\* deleted posts.
C1_Witness ==
    /\ resp.route \in {"add_new_post", "edit_post", "delete_post"}
    /\ resp.status = 403
    /\ DOMAIN posts # {}
    /\ deleted # {}
    /\ \E c \in Clients : session[c] = 2

(* ------------------------------- C2 ----------------------------------- *)
\* C2: every request to a guarded route from a session whose user is not identity 1,
\* the anonymous session included, is answered with 403 and has no effect.
C2_NonAdminGets403 ==
    [][ \A c \in Clients :
            session[c] # 1 /\ GuardedStep(c) => resp'.status = 403 /\ UNCHANGED tables
      ]_vars

(* ------------------------------- C3 ----------------------------------- *)
\* C3: a valid POST to /login with the email of an existing user and a password that
\* verifies against the stored hash logs the session in as that user and redirects
\* to the home listing.
C3_LoginEstablishesSession ==
    [][ \A c \in Clients, e \in Emails, p \in Passwords :
            \A u \in WithEmail(e) :
                /\ resp'.route = "login"
                /\ login(c, "POST", TRUE, e, p)
                /\ check_password_hash(users[u].password, p)
                => /\ session'[c] = u
                   /\ resp'.status = 302
                   /\ resp'.to = "get_all_posts"
      ]_vars

(* ------------------------------- C4 ----------------------------------- *)
\* Client c registers user u in this step, or posts u's email and a password that
\* verifies against u's stored hash to /login.
Authenticates(c, u) ==
    \/ /\ u = Len(users) + 1
       /\ resp'.route = "register"
       /\ \E e \in Emails, n \in Names, p \in RegisterPasswords, salt \in Salts :
              register(c, "POST", TRUE, e, n, p, salt)
    \/ /\ u \in 1..Len(users)
       /\ resp'.route = "login"
       /\ \E p \in Passwords :
              /\ login(c, "POST", TRUE, users[u].email, p)
              /\ check_password_hash(users[u].password, p)

\* C4: a session becomes logged in as user u only by registering u or by a /login
\* POST with u's email and a password that verifies; a /login POST with an unknown
\* email or a password that fails verification reports a notice and does not log the
\* session in as the user whose email was submitted.
C4_LoginOnlyWithCredentials ==
    [][ \A c \in Clients :
          /\ \A u \in 1..MaxUsers :
                session'[c] = u /\ session[c] # u => Authenticates(c, u)
          /\ \A e \in Emails, p \in Passwords :
                /\ resp'.route = "login"
                /\ login(c, "POST", TRUE, e, p)
                /\ \A u \in WithEmail(e) : ~check_password_hash(users[u].password, p)
                => /\ resp'.flash # ""
                   /\ session'[c] \notin WithEmail(e) \/ session'[c] = session[c]
      ]_vars

(* ------------------------------- C5 ----------------------------------- *)
\* C5: after every step no two users share an email, and a valid POST to /register
\* whose email already belongs to a user creates no user, leaves the session
\* identity unchanged and redirects to the login page.
C5_UniqueEmail ==
    [][ /\ \A i, j \in 1..Len(users') : users'[i].email = users'[j].email => i = j
        /\ \A c \in Clients, e \in Emails, n \in Names, p \in RegisterPasswords,
              salt \in Salts :
              /\ resp'.route = "register"
              /\ WithEmail(e) # {}
              /\ register(c, "POST", TRUE, e, n, p, salt)
              => /\ users' = users
                 /\ session' = session
                 /\ resp'.status = 302
                 /\ resp'.to = "login"
      ]_vars

\* A second registration with the email of the second user was turned away.
C5_Witness ==
    /\ Len(users) = 2
    /\ resp.route = "register"
    /\ resp.to = "login"
    /\ resp.flash = "You've already signed up with that email, log in instead."

(* ------------------------------- C6 ----------------------------------- *)
\* C6: a POST of valid comment text to /post/<id> by a session logged in as u
\* creates exactly one comment, whose author is u and whose post is the post with
\* that id; from an anonymous session it creates none and redirects to login.
C6_CommentSubmission ==
    [][ \A c \in Clients, id \in DOMAIN posts :
            resp'.route = "show_post" /\ show_post(c, "POST", TRUE, id, NULL)
            => IF session[c] # Anonymous
               THEN /\ Len(comments') = Len(comments) + 1
                    /\ \A i \in 1..Len(comments) : comments'[i] = comments[i]
                    /\ comments'[Len(comments')].author_id = session[c]
                    /\ comments'[Len(comments')].post_id = id
               ELSE /\ comments' = comments
                    /\ resp'.status = 302
                    /\ resp'.to = "login"
      ]_vars

(* ------------------------------- C7 ----------------------------------- *)
\* C7: a valid POST to /edit-post/<id> by the admin for an existing post p (with a
\* title no other post carries) keeps p's id and date, sets title, subtitle, image
\* URL, body and author to the submitted values, changes no other post and redirects
\* to /post/<id>.
C7_EditOverwrites ==
    [][ \A c \in Clients, id \in DOMAIN posts, f \in PostForms :
            /\ session[c] = 1
            /\ resp'.route = "edit_post"
            /\ edit_post(c, "POST", TRUE, id, f)
            /\ \A i \in DOMAIN posts \ {id} : posts[i].title # f.title
            => /\ DOMAIN posts' = DOMAIN posts
               /\ \A i \in DOMAIN posts \ {id} : posts'[i] = posts[i]
               /\ posts'[id].date = posts[id].date
               /\ posts'[id].title = f.title
               /\ posts'[id].subtitle = f.subtitle
               /\ posts'[id].img_url = f.img_url
               /\ posts'[id].body = f.body
               /\ posts'[id].author_id = f.author
               /\ resp'.status = 302
               /\ resp'.to = "show_post"
               /\ resp'.post = id
      ]_vars

(* ------------------------------- C8 ----------------------------------- *)
\* C8: a valid POST to /new-post by the admin with an unused title adds exactly one
\* post, authored by the acting admin and dated the day of creation, leaves every
\* existing post unchanged, and a GET of / lists every post of the table.
C8_NewPostAddsOne ==
    [][ /\ \A c \in Clients, f \in PostForms :
              /\ session[c] = 1
              /\ resp'.route = "add_new_post"
              /\ add_new_post(c, "POST", TRUE, f)
              /\ \A i \in DOMAIN posts : posts[i].title # f.title
              => \E id \in DOMAIN posts' \ DOMAIN posts :
                    /\ DOMAIN posts' = DOMAIN posts \cup {id}
                    /\ \A i \in DOMAIN posts : posts'[i] = posts[i]
                    /\ posts'[id].author_id = session[c]
                    /\ posts'[id].title = f.title
                    /\ posts'[id].date = strftime(Calendar(today))
        /\ \A c \in Clients :
              resp'.route = "get_all_posts" /\ get_all_posts(c, "GET")
              => resp'.listing = DOMAIN posts
      ]_vars

\* The listing shows two posts created on different days.
C8_Witness ==
    /\ resp.route = "get_all_posts"
    /\ resp.to = "index.html"
    /\ resp.listing = {1, 2}
    /\ DOMAIN posts = {1, 2}
    /\ posts[1].date # posts[2].date
    /\ posts[2].date = <<"January", 1, 2023>>

(* ------------------------------- C9 ----------------------------------- *)
\* C9: a GET of /delete/<id> by the admin for an existing post removes exactly that
\* post and redirects to the listing; until a later request creates a post, no
\* request to /post/<id> resolves to the deleted post and no listing shows it.
C9_DeletedStaysGone ==
    [][ /\ \A c \in Clients, id \in DOMAIN posts :
              session[c] = 1 /\ resp'.route = "delete_post" /\ delete_post(c, "GET", id)
              => /\ DOMAIN posts' = DOMAIN posts \ {id}
                 /\ \A i \in DOMAIN posts' : posts'[i] = posts[i]
                 /\ id \in deleted'
                 /\ resp'.status = 302
                 /\ resp'.to = "get_all_posts"
        /\ \A c \in Clients, s \in Submissions, id \in PostIds : \A t \in Texts(s) :
              /\ resp'.route = "show_post"
              /\ id \in deleted'
              /\ show_post(c, s[1], s[2], id, t)
              => resp'.post # id
        /\ \A c \in Clients :
              resp'.route = "get_all_posts" /\ get_all_posts(c, "GET")
              => resp'.listing \cap deleted' = {}
        /\ deleted' \cap DOMAIN posts' = {}
      ]_vars

\* Every post id was deleted and a later request to /post/<id> rendered no post.
C9_Witness ==
    /\ deleted = PostIds
    /\ resp.route = "show_post"
    /\ resp.to = "post.html"
    /\ resp.post = NoPost

(* ------------------------------- C10 ---------------------------------- *)
\* C10: a GET, or a POST whose form fails validation, to /register, /login,
\* /post/<id>, /new-post or /edit-post/<id> leaves the users, posts and comments
\* tables and the session identity unchanged.
C10_NoSubmissionNoEffect ==
    [][ \A c \in Clients : NotSubmittedStep(c) => UNCHANGED <<tables, session>> ]_vars

====
